---- MODULE Spec2Model ----
(***************************************************************************)
(* A model of torrent2http (src/torrent2http.go): the process started by   *)
(* main, its goroutines (HTTP request handlers, the idle monitor, the      *)
(* parent watchdog, the signal listener, the shutdown goroutines), the     *)
(* engine state they touch, and the runInMainThread call gateway.          *)
(*                                                                         *)
(* Time is discrete (one tick = one second of the idle timer).  A          *)
(* goroutine parked on a channel operation or on an expired timer resumes  *)
(* before the clock advances; everything else takes arbitrary time.        *)
(***************************************************************************)
EXTENDS Integers, Sequences, FiniteSets, TLC

\* ------------------------------------------------------------ bounds
NumConns == 2
MaxShutdowns == 2
MaxIdle == 2
MaxAlerts == 1
MaxPending == 2
NumCallers == 2
NumPieces == 3
MaxFiles == 2
ProgressScale == 2

\* ------------------------------------------------- program constants
ConnTrackCap == 10

Nil == "nil"
TimerOff == -1

Conns == 1..NumConns
ShutdownIds == 1..MaxShutdowns
Callers == 1..NumCallers
Pieces == 0..(NumPieces - 1)

Services == {"dht", "lsd", "upnp", "natpmp"}
Routes == {"status", "ls", "files", "shutdown"}

VARIABLES
    flags,              \* the command line, as parseFlags reads it
    config,             \* instance.config
    session,            \* instance.session
    torrentHandle,      \* instance.torrentHandle
    torrentFS,          \* instance.torrentFS
    mainpc,             \* position of main
    procState,          \* "running", "exited", "crashed"
    exitCode,           \* status passed to os.Exit, -1 while running
    services,           \* engine: the discovery subsystems that run
    alertMask,          \* engine: "default" or "storage"
    alertQueue,         \* engine: queued alerts, oldest first
    torrentState,       \* engine: "none", "active", "removing", "removed"
    hasMetadata,        \* engine: the torrent's metadata is known
    filesOnDisk,        \* the downloaded files exist under the save path
    hpc,                \* position of each HTTP request task
    connTrackChannel,   \* the buffered channel of +1 / -1
    monitorOn,          \* inactiveAutoShutdown runs
    activeConnections,  \* the monitor's counter
    idleTimer,          \* ticks left on the select's time.After, or TimerOff
    arrived,            \* some request has sent its +1, history
    late,               \* the last +1 was sent with the idle timer already
                        \* expired, history
    sinceArrival,       \* ticks since the last +1 was sent, or since the
                        \* monitor started (capped at idleTimeout), history
    lastFire,           \* what the monitor saw when it last fired, history
    idleFires,          \* times the monitor ran `go shutdown()`, history
    sd,                 \* the shutdown goroutines
    wppc,               \* position of watchParent
    sigpc,              \* position of handleSignals
    gwpc,               \* position of each task calling runInMainThread
    tfsFiles,           \* the files TFSReaddir lists, each with its piece range
    pieceProgress,      \* engine: completion of each piece, in 1/ProgressScale
    lsOut,              \* the last listing /ls wrote, history
    lsProgress,         \* pieceProgress when that listing was computed, history
    espc,               \* position of ensureSeeding
    prioritiesReset     \* ensureSeeding has set every piece's priority to 1

vars == <<flags, config, session, torrentHandle, torrentFS, mainpc, procState,
          exitCode, services, alertMask, alertQueue, torrentState, hasMetadata,
          filesOnDisk, hpc, connTrackChannel, monitorOn, activeConnections,
          idleTimer, arrived, late, sinceArrival, lastFire, idleFires, sd, wppc, sigpc,
          gwpc, tfsFiles, pieceProgress, lsOut, lsProgress, espc, prioritiesReset>>

instanceVars == <<config, session, torrentHandle, torrentFS>>
engineVars == <<services, alertMask, alertQueue, torrentState, hasMetadata, filesOnDisk>>
procVars == <<procState, exitCode>>
monitorVars == <<monitorOn, activeConnections, idleTimer, lastFire, idleFires>>
taskVars == <<wppc, sigpc>>
histVars == <<arrived, late, sinceArrival>>
lsVars == <<tfsFiles, pieceProgress, lsOut, lsProgress>>
seedVars == <<espc, prioritiesReset>>

\* ------------------------------------------------------------ state

\* The zero value of Config, as `var instance = Instance{}` leaves it.
ZeroConfig ==
    [uriSet |-> FALSE, keepFiles |-> FALSE, idleTimeout |-> 0,
     buffer |-> [num |-> 0, den |-> 1]]

\* -buffer, a float64 in the code, as the fraction num/den: its default 0.01.
DefaultBuffer == [num |-> 1, den |-> 100]

\* The values of -buffer considered: 0, 0.01, 0.5, 1.
BufferFractions ==
    {[num |-> 0, den |-> 1], DefaultBuffer, [num |-> 1, den |-> 2],
     [num |-> 1, den |-> 1]}

\* The command lines considered: -uri given or not, -keep, -max-idle, -buffer.
FlagSets ==
    [uriSet : BOOLEAN, keepFiles : BOOLEAN, idleTimeout : {-1, MaxIdle},
     buffer : BufferFractions]

\* A file of the torrent with the piece range file.Pieces() returns for it.
FileRanges ==
    {r \in [startPiece : 0..NumPieces, endPiece : 0..NumPieces] :
        r.startPiece <= r.endPiece}

\* The file lists considered: the first file starts at piece 0, a file ends
\* where it starts when it is empty, and the next file starts in the piece
\* where the one before it ends or in the piece after that one.
Layouts ==
    {l \in UNION {[1..n -> FileRanges] : n \in 1..MaxFiles} :
        /\ l[1].startPiece = 0
        /\ \A k \in 2..Len(l) :
              /\ l[k].startPiece <= l[k - 1].endPiece
              /\ l[k].startPiece >= l[k - 1].endPiece - 1
              /\ l[k].startPiece >= l[k - 1].startPiece}

\* A torrent of one file that spans every piece.
SingleFile == <<[startPiece |-> 0, endPiece |-> NumPieces]>>

\* A shutdown goroutine: its position, and as history whether every service
\* was stopped when it asked for the removal, what its wait loop saw last
\* ("timeout" for a poll that returned no alert, else the name of the alert
\* it popped), and whether it called removeFiles.
NoShutdown == [pc |-> "none", rmOK |-> FALSE, why |-> "none", fallback |-> FALSE]

NoFire ==
    [fired |-> FALSE, age |-> 0, conns |-> 0, arrived |-> FALSE, late |-> FALSE]

\* The process as the operating system starts it with command line `f`, the
\* -uri naming a torrent of the files `files`.
Start(f, files) ==
    /\ flags = f
    /\ tfsFiles = files
    /\ pieceProgress = [p \in Pieces |-> 0]
    /\ lsOut = <<>>
    /\ lsProgress = [p \in Pieces |-> 0]
    /\ espc = "none"
    /\ prioritiesReset = FALSE
    /\ config = ZeroConfig
    /\ session = Nil
    /\ torrentHandle = Nil
    /\ torrentFS = Nil
    /\ mainpc = "parseFlags"
    /\ procState = "running"
    /\ exitCode = -1
    /\ services = {}
    /\ alertMask = "default"
    /\ alertQueue = <<>>
    /\ torrentState = "none"
    /\ hasMetadata = FALSE
    /\ filesOnDisk = FALSE
    /\ hpc = [h \in Conns |-> "idle"]
    /\ connTrackChannel = <<>>
    /\ monitorOn = FALSE
    /\ activeConnections = 0
    /\ idleTimer = TimerOff
    /\ arrived = FALSE
    /\ late = FALSE
    /\ sinceArrival = 0
    /\ lastFire = NoFire
    /\ idleFires = 0
    /\ sd = [i \in ShutdownIds |-> NoShutdown]
    /\ wppc = "none"
    /\ sigpc = "none"
    /\ gwpc = [c \in Callers |-> "idle"]

Running == procState = "running"

\* os.Exit(code): the process and every goroutine in it stop.
Exit(code) ==
    /\ procState' = "exited"
    /\ exitCode' = code

\* ------------------------------------------------------------- main

\* parseFlags: no -uri prints the usage and exits 1; else instance.config is set.
Main_ParseFlags ==
    /\ Running
    /\ mainpc = "parseFlags"
    /\ IF flags.uriSet
       THEN /\ config' = flags
            /\ mainpc' = "newSession"
            /\ UNCHANGED procVars
       ELSE /\ Exit(1)
            /\ UNCHANGED <<config, mainpc>>
    /\ UNCHANGED <<flags, session, torrentHandle, torrentFS, engineVars, hpc,
                   connTrackChannel, monitorVars, histVars, sd, taskVars, gwpc, lsVars, seedVars>>

\* instance.session = libtorrent.NewSession(); Listen_on; configureSession.
Main_NewSession ==
    /\ Running
    /\ mainpc = "newSession"
    /\ session' = "session"
    /\ mainpc' = "startServices"
    /\ UNCHANGED <<flags, config, torrentHandle, torrentFS, procVars, engineVars,
                   hpc, connTrackChannel, monitorVars, histVars, sd, taskVars, gwpc, lsVars, seedVars>>

\* startServices: Start_dht, Start_lsd, Start_upnp, Start_natpmp.
Main_StartServices ==
    /\ Running
    /\ mainpc = "startServices"
    /\ services' = Services
    /\ mainpc' = "addTorrent"
    /\ UNCHANGED <<flags, instanceVars, procVars, alertMask, alertQueue, torrentState,
                   hasMetadata, filesOnDisk, hpc, connTrackChannel, monitorVars,
                   histVars, sd, taskVars, gwpc, lsVars, seedVars>>

\* instance.torrentHandle = session.Add_torrent(params); Set_sequential_download.
Main_AddTorrent ==
    /\ Running
    /\ mainpc = "addTorrent"
    /\ torrentHandle' = "handle"
    /\ torrentState' = "active"
    /\ mainpc' = "newTorrentFS"
    /\ UNCHANGED <<flags, config, session, torrentFS, procVars, services, alertMask,
                   alertQueue, hasMetadata, filesOnDisk, hpc, connTrackChannel,
                   monitorVars, histVars, sd, taskVars, gwpc, lsVars, seedVars>>

\* Main_NewTorrentFS with the assignment of instance.torrentFS left for later.
Main_NewTorrentFS_Deferred ==
    /\ Running
    /\ mainpc = "newTorrentFS"
    /\ mainpc' = "goHandleSignals"
    /\ UNCHANGED <<flags, instanceVars, procVars, engineVars, hpc,
                   connTrackChannel, monitorVars, histVars, sd, taskVars, gwpc,
                   lsVars, seedVars>>

\* instance.torrentFS = NewTorrentFS(instance.torrentHandle).
Main_NewTorrentFS ==
    /\ Running
    /\ mainpc = "newTorrentFS"
    /\ torrentFS' = "fs"
    /\ mainpc' = "goHandleSignals"
    /\ UNCHANGED <<flags, config, session, torrentHandle, procVars, engineVars, hpc,
                   connTrackChannel, monitorVars, histVars, sd, taskVars, gwpc, lsVars, seedVars>>

\* go handleSignals()
Main_GoHandleSignals ==
    /\ Running
    /\ mainpc = "goHandleSignals"
    /\ sigpc' = "wait"
    /\ mainpc' = "goWatchParent"
    /\ UNCHANGED <<flags, instanceVars, procVars, engineVars, hpc, connTrackChannel,
                   monitorVars, histVars, sd, wppc, gwpc, lsVars, seedVars>>

\* go watchParent()
Main_GoWatchParent ==
    /\ Running
    /\ mainpc = "goWatchParent"
    /\ wppc' = "poll"
    /\ mainpc' = "startHTTP"
    /\ UNCHANGED <<flags, instanceVars, procVars, engineVars, hpc, connTrackChannel,
                   monitorVars, histVars, sd, sigpc, gwpc, lsVars, seedVars>>

\* The handlers are wrapped by the connection counter iff idleTimeout > 0.
Wrapped == config.idleTimeout > 0

\* IdleBranch with the test lost: the select, and its timer, in every iteration.
IdleBranch_Always(conns) == TRUE

\* `if activeConnections == 0`: the monitor takes the select with the timer.
IdleBranch(conns) == conns = 0

\* ArmTimer with one timer kept until it expires, not a fresh one per select.
ArmTimer_Stale(conns, old) ==
    IF old > 0 THEN old ELSE config.idleTimeout

\* The timer the monitor holds once it has looped back with `conns` active
\* connections, `old` being the timer it held before: a fresh
\* time.After(idleTimeout) in the select, none in the else branch.
ArmTimer(conns, old) ==
    IF IdleBranch(conns) THEN config.idleTimeout ELSE TimerOff

\* startHTTP up to ListenAndServe: the mux, and with idleTimeout > 0 the
\* channel, the wrapper and `go inactiveAutoShutdown(connTrackChannel)`.
Main_StartHTTP ==
    /\ Running
    /\ mainpc = "startHTTP"
    /\ IF Wrapped
       THEN /\ monitorOn' = TRUE
            /\ idleTimer' = ArmTimer(0, TimerOff)
       ELSE UNCHANGED <<monitorOn, idleTimer>>
    /\ mainpc' = "listen"
    /\ UNCHANGED <<flags, instanceVars, procVars, engineVars, hpc, connTrackChannel,
                   activeConnections, lastFire, idleFires, histVars, sd,
                   taskVars, gwpc, lsVars, seedVars>>

\* http.ListenAndServe binds and serves ...
Main_Listen ==
    /\ Running
    /\ mainpc = "listen"
    /\ mainpc' = "serving"
    /\ UNCHANGED <<flags, instanceVars, procVars, engineVars, hpc, connTrackChannel,
                   monitorVars, histVars, sd, taskVars, gwpc, lsVars, seedVars>>

\* ... or fails to bind and returns: main returns and the process ends.
Main_ListenFails ==
    /\ Running
    /\ mainpc = "listen"
    /\ Exit(0)
    /\ UNCHANGED <<flags, instanceVars, mainpc, engineVars, hpc, connTrackChannel,
                   monitorVars, histVars, sd, taskVars, gwpc, lsVars, seedVars>>

Main ==
    \/ Main_ParseFlags
    \/ Main_NewSession
    \/ Main_StartServices
    \/ Main_AddTorrent
    \/ Main_NewTorrentFS
    \/ Main_GoHandleSignals
    \/ Main_GoWatchParent
    \/ Main_StartHTTP
    \/ Main_Listen
    \/ Main_ListenFails

\* ---------------------------------------------- shutdown goroutines

\* `go shutdown()` needs a goroutine the model still has room for.
CanSpawn == \E i \in ShutdownIds : sd[i].pc = "none"

FreeSlot == CHOOSE i \in ShutdownIds :
    /\ sd[i].pc = "none"
    /\ \A j \in ShutdownIds : j < i => sd[j].pc # "none"

\* sd after `go shutdown()`: a new goroutine that has not run yet.
GoShutdown == [sd EXCEPT ![FreeSlot].pc = "start"]

\* The goroutine has entered shutdown() and begun the teardown.
Started(i) == sd[i].pc \notin {"none", "start"}

\* ------------------------------------------------- HTTP request tasks

Serving == Running /\ mainpc = "serving"

\* NewConnectionCounterHandler's wrapper: `connTrackChannel <- n` when the
\* handlers are wrapped (idleTimeout > 0), nothing otherwise.  The send
\* blocks on a full channel; the runs considered are those in which the
\* monitor is never more than MaxPending values behind.
CanCount ==
    Wrapped => /\ Len(connTrackChannel) < ConnTrackCap
               /\ Len(connTrackChannel) < MaxPending

\* Counted with a channel that hands out the newest value first.
Counted_Lifo(n) == IF Wrapped THEN <<n>> \o connTrackChannel ELSE connTrackChannel

Counted(n) == IF Wrapped THEN Append(connTrackChannel, n) ELSE connTrackChannel

\* Where a request for `route` is once the wrapper has sent +1 and the mux
\* has called the handler: statusHandler answers State -1 by itself without
\* a handle and else calls instance.torrentHandle.Status(); lsHandler calls
\* libtorrent.Get_piece_progress(instance.torrentHandle, ..); /files/ is
\* served by http.FileServer(instance.torrentFS); /shutdown is about to run
\* `go shutdown()`.
Entered(route) ==
    CASE route = "status" -> IF torrentHandle = Nil THEN "statusNoHandle" ELSE "statusEngine"
      [] route = "ls" -> "lsEngine"
      [] route = "files" -> "files"
      [] route = "shutdown" -> "shutdown"

\* A request arrives for `route`: the wrapper's +1, then the handler starts.
Http_Enter(h, route) ==
    /\ Serving
    /\ hpc[h] = "idle"
    /\ CanCount
    /\ connTrackChannel' = Counted(1)
    /\ IF Wrapped
       THEN /\ arrived' = TRUE
            /\ late' = (IdleBranch(activeConnections) /\ idleTimer = 0)
            /\ sinceArrival' = 0
       ELSE UNCHANGED histVars
    /\ hpc' = [hpc EXCEPT ![h] = Entered(route)]
    /\ UNCHANGED <<flags, instanceVars, mainpc, procVars, engineVars, monitorVars,
                   sd, taskVars, gwpc, lsVars, seedVars>>

\* ------------------------------------------------- lsHandler's listing

\* math.Ceil(instance.config.buffer * float64(n)), for n >= 0.
CeilOfBufferTimes(n) ==
    (config.buffer.num * n + config.buffer.den - 1) \div config.buffer.den

\* `pieces`: the ceiling, or 1 when that is less than 1.
PieceCount(file) ==
    LET pieces == CeilOfBufferTimes(file.endPiece - file.startPiece)
    IN  IF pieces < 1 THEN 1 ELSE pieces

\* libtorrent.Get_piece_progress(instance.torrentHandle, piece), in
\* 1/ProgressScale.
Get_piece_progress(piece) == pieceProgress[piece]

\* for piece := 0; piece < pieces; piece++ { buffer += Get_piece_progress(.., piece) }
RECURSIVE BufferSum(_)
BufferSum(pieces) ==
    IF pieces = 0 THEN 0
    ELSE BufferSum(pieces - 1) + Get_piece_progress(pieces - 1)

\* BufferDivisor with `buffer = buffer / float64(pieces)` lost.
BufferDivisor_None(pieces) == 1

\* buffer = buffer / float64(pieces)
BufferDivisor(pieces) == pieces

\* TotalPieces without the math.Max.
TotalPieces_Raw(file) == file.endPiece - file.startPiece

\* int(math.Max(float64(endPiece-startPiece), 1))
TotalPieces(file) ==
    IF file.endPiece - file.startPiece > 1
    THEN file.endPiece - file.startPiece ELSE 1

\* The FileStatusInfo of one file: TotalPieces, and Buffer as the fraction
\* num/den (Name, Size and Offset are copied from the file).
FileStatusInfo(file) ==
    [total_pieces |-> TotalPieces(file),
     buffer |-> [num |-> BufferSum(PieceCount(file)),
                 den |-> BufferDivisor(PieceCount(file)) * ProgressScale]]

\* retFiles.Files: one FileStatusInfo per file, in the order of `files`.
LsInfo == [k \in 1..Len(tfsFiles) |-> FileStatusInfo(tfsFiles[k])]

\* statusHandler, lsHandler or the file server returns (the engine calls of
\* the first two have returned, the response is written); the wrapper's -1.
\* lsHandler's response is the listing computed from the engine's state.
Http_Return(h) ==
    /\ Serving
    /\ hpc[h] \in {"statusNoHandle", "statusEngine", "lsEngine", "files"}
    /\ CanCount
    /\ connTrackChannel' = Counted(-1)
    /\ hpc' = [hpc EXCEPT ![h] = "idle"]
    /\ IF hpc[h] = "lsEngine"
       THEN /\ lsOut' = LsInfo
            /\ lsProgress' = pieceProgress
       ELSE UNCHANGED <<lsOut, lsProgress>>
    /\ UNCHANGED <<flags, instanceVars, mainpc, procVars, engineVars, monitorVars,
                   histVars, sd, taskVars, gwpc, tfsFiles, pieceProgress, seedVars>>

\* /shutdown: `go shutdown()` ...
ShutdownHandler_Go(h) ==
    /\ Serving
    /\ hpc[h] = "shutdown"
    /\ CanSpawn
    /\ sd' = GoShutdown
    /\ hpc' = [hpc EXCEPT ![h] = "shutdownOK"]
    /\ UNCHANGED <<flags, instanceVars, mainpc, procVars, engineVars, connTrackChannel,
                   monitorVars, histVars, taskVars, gwpc, lsVars, seedVars>>

\* ... then fmt.Fprintf(w, "OK"), the handler returns; the wrapper's -1.
ShutdownHandler_WriteOK(h) ==
    /\ Serving
    /\ hpc[h] = "shutdownOK"
    /\ CanCount
    /\ connTrackChannel' = Counted(-1)
    /\ hpc' = [hpc EXCEPT ![h] = "idle"]
    /\ UNCHANGED <<flags, instanceVars, mainpc, procVars, engineVars, monitorVars,
                   histVars, sd, taskVars, gwpc, lsVars, seedVars>>

\* The request tasks, the clients asking for the routes of `routes` only.
Http(routes) ==
    \/ \E h \in Conns, route \in routes : Http_Enter(h, route)
    \/ \E h \in Conns : Http_Return(h)
    \/ \E h \in Conns : ShutdownHandler_Go(h)
    \/ \E h \in Conns : ShutdownHandler_WriteOK(h)

\* ------------------------------------------------- the idle monitor

\* Requests between the wrapper's +1 and its -1.
InFlight == {h \in Conns : hpc[h] # "idle"}

\* select, case inc := <-connTrackChannel: activeConnections += inc.
Monitor_SelectRecv ==
    /\ Running
    /\ monitorOn
    /\ IdleBranch(activeConnections)
    /\ connTrackChannel # <<>>
    /\ activeConnections' = activeConnections + Head(connTrackChannel)
    /\ connTrackChannel' = Tail(connTrackChannel)
    /\ idleTimer' = ArmTimer(activeConnections', idleTimer)
    /\ UNCHANGED <<flags, instanceVars, mainpc, procVars, engineVars, hpc, monitorOn,
                   lastFire, idleFires, histVars, sd, taskVars, gwpc, lsVars, seedVars>>

\* select, case <-time.After(idleTimeout seconds): go shutdown().
Monitor_SelectTimeout ==
    /\ Running
    /\ monitorOn
    /\ IdleBranch(activeConnections)
    /\ idleTimer = 0
    /\ CanSpawn
    /\ sd' = GoShutdown
    /\ idleFires' = idleFires + 1
    /\ lastFire' = [fired |-> TRUE, age |-> sinceArrival, conns |-> activeConnections,
                    arrived |-> arrived, late |-> late]
    /\ idleTimer' = ArmTimer(activeConnections, idleTimer)
    /\ UNCHANGED <<flags, instanceVars, mainpc, procVars, engineVars, hpc,
                   connTrackChannel, monitorOn, activeConnections, histVars,
                   taskVars, gwpc, lsVars, seedVars>>

\* else: activeConnections += <-connTrackChannel.
Monitor_Recv ==
    /\ Running
    /\ monitorOn
    /\ ~IdleBranch(activeConnections)
    /\ connTrackChannel # <<>>
    /\ activeConnections' = activeConnections + Head(connTrackChannel)
    /\ connTrackChannel' = Tail(connTrackChannel)
    /\ idleTimer' = ArmTimer(activeConnections', idleTimer)
    /\ UNCHANGED <<flags, instanceVars, mainpc, procVars, engineVars, hpc, monitorOn,
                   lastFire, idleFires, histVars, sd, taskVars, gwpc, lsVars, seedVars>>

\* The monitor is parked with something to resume on: time does not pass first.
MonitorReady ==
    /\ monitorOn
    /\ \/ connTrackChannel # <<>>
       \/ IdleBranch(activeConnections) /\ idleTimer = 0

\* One second passes.
Tick ==
    /\ Running
    /\ monitorOn
    /\ ~MonitorReady
    /\ idleTimer' = IF idleTimer > 0 THEN idleTimer - 1 ELSE idleTimer
    /\ sinceArrival' = IF sinceArrival < config.idleTimeout
                       THEN sinceArrival + 1 ELSE sinceArrival
    /\ UNCHANGED <<flags, instanceVars, mainpc, procVars, engineVars, hpc,
                   connTrackChannel, monitorOn, activeConnections, lastFire,
                   idleFires, arrived, late, sd, taskVars, gwpc, lsVars, seedVars>>

Monitor ==
    \/ Monitor_SelectRecv
    \/ Monitor_SelectTimeout
    \/ Monitor_Recv
    \/ Tick

\* ---------------------------------------- watchParent, handleSignals

\* watchParent: os.Getppid() == 1 at one of the 2-second polls: go shutdown(); break.
WatchParent_ParentDied ==
    /\ Running
    /\ wppc = "poll"
    /\ CanSpawn
    /\ sd' = GoShutdown
    /\ wppc' = "done"
    /\ UNCHANGED <<flags, instanceVars, mainpc, procVars, engineVars, hpc,
                   connTrackChannel, monitorVars, histVars, sigpc, gwpc, lsVars, seedVars>>

\* handleSignals: SIGINT or SIGTERM arrives on signalChan: go shutdown().
HandleSignals_Signal ==
    /\ Running
    /\ sigpc = "wait"
    /\ CanSpawn
    /\ sd' = GoShutdown
    /\ sigpc' = "done"
    /\ UNCHANGED <<flags, instanceVars, mainpc, procVars, engineVars, hpc,
                   connTrackChannel, monitorVars, histVars, wppc, gwpc, lsVars, seedVars>>

Watchers ==
    \/ WatchParent_ParentDied
    \/ HandleSignals_Signal

\* ------------------------------------------------------- shutdown()

\* AfterStopServices with the keepFiles test lost.
AfterStopServices_Remove == "remove"

\* `if instance.config.keepFiles == false`: where shutdown goes after stopServices.
AfterStopServices ==
    IF config.keepFiles = FALSE THEN "remove" ELSE "exit"

\* The services stopServices stops: Stop_dht, Stop_lsd, Stop_upnp, Stop_natpmp.
StopServices == {"dht", "lsd", "upnp", "natpmp"}

\* shutdown() begins: stopServices(), then the keepFiles test.
Shutdown_StopServices(i) ==
    /\ Running
    /\ sd[i].pc = "start"
    /\ services' = services \ StopServices
    /\ sd' = [sd EXCEPT ![i].pc = AfterStopServices]
    /\ UNCHANGED <<flags, instanceVars, mainpc, procVars, alertMask, alertQueue,
                   torrentState, hasMetadata, filesOnDisk, hpc, connTrackChannel,
                   monitorVars, histVars, taskVars, gwpc, lsVars, seedVars>>

\* Set_alert_mask(AlertStorage_notification), then
\* Remove_torrent(instance.torrentHandle, 1): the engine is asked to remove
\* the torrent and delete its files; it does so later.
Shutdown_RemoveTorrent(i) ==
    /\ Running
    /\ sd[i].pc = "remove"
    /\ alertMask' = "storage"
    /\ torrentState' = IF torrentState = "active" THEN "removing" ELSE torrentState
    /\ sd' = [sd EXCEPT ![i].pc = "wait", ![i].rmOK = (services = {})]
    /\ UNCHANGED <<flags, instanceVars, mainpc, procVars, services, alertQueue,
                   hasMetadata, filesOnDisk, hpc, connTrackChannel, monitorVars,
                   histVars, taskVars, gwpc, lsVars, seedVars>>

\* AfterWaitTimeout leaving shutdown's cleanup out when the poll times out.
AfterWaitTimeout_Exit == "exit"

\* Where shutdown goes when Wait_for_alert(30 s) returns no alert: break.
AfterWaitTimeout == "removeFiles"

\* Wait_for_alert(Seconds(30)) returns an alert: one is queued.
Shutdown_WaitAlert(i) ==
    /\ Running
    /\ sd[i].pc = "wait"
    /\ alertQueue # <<>>
    /\ sd' = [sd EXCEPT ![i].pc = "pop"]
    /\ UNCHANGED <<flags, instanceVars, mainpc, procVars, engineVars, hpc,
                   connTrackChannel, monitorVars, histVars, taskVars, gwpc, lsVars, seedVars>>

\* Wait_for_alert(Seconds(30)) returns 0: none came in 30 seconds.
Shutdown_WaitTimeout(i) ==
    /\ Running
    /\ sd[i].pc = "wait"
    /\ alertQueue = <<>>
    /\ sd' = [sd EXCEPT ![i].pc = AfterWaitTimeout, ![i].why = "timeout"]
    /\ UNCHANGED <<flags, instanceVars, mainpc, procVars, engineVars, hpc,
                   connTrackChannel, monitorVars, histVars, taskVars, gwpc, lsVars, seedVars>>

\* AfterPop leaving the loop on any alert.
AfterPop_Any(what) == "removeFiles"

\* Where shutdown goes after popping an alert named `what`.
AfterPop(what) ==
    IF what = "cache_flushed_alert" THEN "removeFiles" ELSE "wait"

\* Pop_alert2().What() == "cache_flushed_alert" breaks; any other name loops.
Shutdown_PopAlert(i) ==
    /\ Running
    /\ sd[i].pc = "pop"
    /\ alertQueue # <<>>
    /\ alertQueue' = Tail(alertQueue)
    /\ sd' = [sd EXCEPT ![i].pc = AfterPop(Head(alertQueue)),
                        ![i].why = Head(alertQueue)]
    /\ UNCHANGED <<flags, instanceVars, mainpc, procVars, services, alertMask,
                   torrentState, hasMetadata, filesOnDisk, hpc, connTrackChannel,
                   monitorVars, histVars, taskVars, gwpc, lsVars, seedVars>>

\* Pop_alert2() after another shutdown goroutine took the alert: it returns a
\* null alert and What() dereferences it.  The process dies on the fault, or
\* the call yields a name that is not "cache_flushed_alert".
Shutdown_PopNull(i) ==
    /\ Running
    /\ sd[i].pc = "pop"
    /\ alertQueue = <<>>
    /\ \/ /\ procState' = "crashed"
          /\ exitCode' = 2
          /\ UNCHANGED sd
       \/ /\ sd' = [sd EXCEPT ![i].pc = "wait"]
          /\ UNCHANGED procVars
    /\ UNCHANGED <<flags, instanceVars, mainpc, engineVars, hpc, connTrackChannel,
                   monitorVars, histVars, taskVars, gwpc, lsVars, seedVars>>

\* instance.torrentHandle.Status().GetHas_metadata(): false without metadata,
\* and false once the engine has dropped the torrent (the handle is invalid).
HandleHasMetadata == hasMetadata /\ torrentState \in {"active", "removing"}

\* removeFiles(): returns at once without metadata, else os.RemoveAll of
\* every file of the torrent under the save path.
Shutdown_RemoveFiles(i) ==
    /\ Running
    /\ sd[i].pc = "removeFiles"
    /\ filesOnDisk' = IF HandleHasMetadata THEN FALSE ELSE filesOnDisk
    /\ sd' = [sd EXCEPT ![i].pc = "exit", ![i].fallback = TRUE]
    /\ UNCHANGED <<flags, instanceVars, mainpc, procVars, services, alertMask,
                   alertQueue, torrentState, hasMetadata, hpc, connTrackChannel,
                   monitorVars, histVars, taskVars, gwpc, lsVars, seedVars>>

\* log.Println("Bye bye"); os.Exit(0)
Shutdown_Exit(i) ==
    /\ Running
    /\ sd[i].pc = "exit"
    /\ Exit(0)
    /\ sd' = [sd EXCEPT ![i].pc = "exited"]
    /\ UNCHANGED <<flags, instanceVars, mainpc, engineVars, hpc, connTrackChannel,
                   monitorVars, histVars, taskVars, gwpc, lsVars, seedVars>>

Shutdown ==
    \/ \E i \in ShutdownIds : Shutdown_StopServices(i)
    \/ \E i \in ShutdownIds : Shutdown_RemoveTorrent(i)
    \/ \E i \in ShutdownIds : Shutdown_WaitAlert(i)
    \/ \E i \in ShutdownIds : Shutdown_WaitTimeout(i)
    \/ \E i \in ShutdownIds : Shutdown_PopAlert(i)
    \/ \E i \in ShutdownIds : Shutdown_PopNull(i)
    \/ \E i \in ShutdownIds : Shutdown_RemoveFiles(i)
    \/ \E i \in ShutdownIds : Shutdown_Exit(i)

\* ------------------------------------------- the engine, from outside

\* The torrent's metadata becomes known (at once for a .torrent file) and
\* the engine starts to write the files under the save path.
Engine_Metadata ==
    /\ Running
    /\ torrentState = "active"
    /\ ~hasMetadata
    /\ hasMetadata' = TRUE
    /\ filesOnDisk' = TRUE
    /\ UNCHANGED <<flags, instanceVars, mainpc, procVars, services, alertMask,
                   alertQueue, torrentState, hpc, connTrackChannel, monitorVars,
                   histVars, sd, taskVars, gwpc, lsVars, seedVars>>

\* The engine queues an alert that is not the cache-flushed one; a full
\* queue drops it.
Engine_PostAlert ==
    /\ Running
    /\ session # Nil
    /\ Len(alertQueue) < MaxAlerts
    /\ alertQueue' = Append(alertQueue, "other_alert")
    /\ UNCHANGED <<flags, instanceVars, mainpc, procVars, services, alertMask,
                   torrentState, hasMetadata, filesOnDisk, hpc, connTrackChannel,
                   monitorVars, histVars, sd, taskVars, gwpc, lsVars, seedVars>>

\* The engine carries out the removal: the torrent is dropped, its files are
\* deleted (or the deletion fails), and the cache-flushed alert is queued
\* unless the queue is full.
Engine_FinishRemoval ==
    /\ Running
    /\ torrentState = "removing"
    /\ torrentState' = "removed"
    /\ \E deleted \in BOOLEAN :
         filesOnDisk' = IF deleted THEN FALSE ELSE filesOnDisk
    /\ alertQueue' = IF Len(alertQueue) < MaxAlerts
                     THEN Append(alertQueue, "cache_flushed_alert")
                     ELSE alertQueue
    /\ UNCHANGED <<flags, instanceVars, mainpc, procVars, services, alertMask,
                   hasMetadata, hpc, connTrackChannel, monitorVars, histVars, sd,
                   taskVars, gwpc, lsVars, seedVars>>

\* The engine completes more of piece `p`.
Engine_Download(p) ==
    /\ Running
    /\ torrentState = "active"
    /\ hasMetadata
    /\ pieceProgress[p] < ProgressScale
    /\ pieceProgress' = [pieceProgress EXCEPT ![p] = pieceProgress[p] + 1]
    /\ UNCHANGED <<flags, instanceVars, mainpc, procVars, engineVars, hpc,
                   connTrackChannel, monitorVars, histVars, sd, taskVars, gwpc,
                   tfsFiles, lsOut, lsProgress, seedVars>>

Engine ==
    \/ Engine_Metadata
    \/ Engine_PostAlert
    \/ Engine_FinishRemoval

\* --------------------------------------------------- ensureSeeding

\* tstatus.GetIs_seeding() || tstatus.GetIs_finished(): every piece is complete.
IsFinished == \A p \in Pieces : pieceProgress[p] = ProgressScale

\* ensureSeeding's poll, once a second: break when the torrent is seeding or
\* finished.
EnsureSeeding_Poll ==
    /\ Running
    /\ espc = "poll"
    /\ IsFinished
    /\ espc' = "setPriorities"
    /\ UNCHANGED <<flags, instanceVars, mainpc, procVars, engineVars, hpc,
                   connTrackChannel, monitorVars, histVars, sd, taskVars, gwpc,
                   lsVars, prioritiesReset>>

\* Piece_priority(i, 1) for every piece; ensureSeeding returns.
EnsureSeeding_SetPriorities ==
    /\ Running
    /\ espc = "setPriorities"
    /\ prioritiesReset' = TRUE
    /\ espc' = "done"
    /\ UNCHANGED <<flags, instanceVars, mainpc, procVars, engineVars, hpc,
                   connTrackChannel, monitorVars, histVars, sd, taskVars, gwpc,
                   lsVars>>

\* --------------------------------------------------- the call gateway

\* runInMainThread(f): done is made and the closure is sent on the
\* unbuffered mainFuncChan; the send completes when a goroutine receives.
\* No goroutine of the program receives from mainFuncChan.
RunInMainThread_Send(c) ==
    /\ Running
    /\ gwpc[c] = "idle"
    /\ gwpc' = [gwpc EXCEPT ![c] = "send"]
    /\ UNCHANGED <<flags, instanceVars, mainpc, procVars, engineVars, hpc,
                   connTrackChannel, monitorVars, histVars, sd, taskVars, lsVars,
                   seedVars>>

Gateway ==
    \/ \E c \in Callers : RunInMainThread_Send(c)

\* ------------------------------------------------- specifications

\* The command lines without and with an idle timeout, -buffer left at its
\* default.
NoIdleFlags == {f \in FlagSets : f.idleTimeout <= 0 /\ f.buffer = DefaultBuffer}

IdleFlags == {f \in FlagSets : f.idleTimeout > 0 /\ f.buffer = DefaultBuffer}

\* The program started without -max-idle: no idle monitor runs.  Nothing in
\* the program calls runInMainThread.
Init == \E f \in NoIdleFlags : Start(f, SingleFile)

Next ==
    \/ Main
    \/ Http(Routes)
    \/ Watchers
    \/ Shutdown
    \/ Engine

Spec == Init /\ [][Next]_vars

\* The program started with -max-idle MaxIdle, in an environment that asks
\* for /status and /shutdown only (to the connection counter every route is
\* the same), sends no signal and keeps the parent alive.
IdleInit == \E f \in IdleFlags : Start(f, SingleFile)

IdleRoutes == {"status", "shutdown"}

IdleNext ==
    \/ Main
    \/ Http(IdleRoutes)
    \/ Monitor
    \/ Shutdown
    \/ Engine

IdleSpec == IdleInit /\ [][IdleNext]_vars

\* The program with NumCallers more tasks that call runInMainThread.
GatewayNext ==
    \/ Next
    \/ Gateway

GatewaySpec == Init /\ [][GatewayNext]_vars

FairGatewaySpec == GatewaySpec /\ WF_vars(GatewayNext)

\* Spec with shutdown goroutines that keep running once started.
FairSpec == Spec /\ WF_vars(Shutdown)

\* The program started without -max-idle and without -keep on a torrent of
\* any of the layouts, with any -buffer, in an environment that asks for /ls
\* only while the engine downloads the pieces in any order.
LsFlags == {f \in FlagSets : f.idleTimeout <= 0 /\ ~f.keepFiles}

LsInit == \E f \in LsFlags, files \in Layouts : Start(f, files)

LsNext ==
    \/ Main
    \/ \E h \in Conns : Http_Enter(h, "ls")
    \/ \E h \in Conns : Http_Return(h)
    \/ Engine_Metadata
    \/ \E p \in Pieces : Engine_Download(p)

LsSpec == LsInit /\ [][LsNext]_vars

FairLsSpec == LsSpec /\ WF_vars(LsNext)

\* ------------------------------------------------------------ claims

\* The tasks inside a call into the engine: a request task in the engine
\* calls of statusHandler or lsHandler, a shutdown goroutine in Wait_for_alert.
EngineCallers ==
    {<<"http", h>> : h \in {x \in Conns : hpc[x] \in {"statusEngine", "lsEngine"}}}
    \cup {<<"shutdown", i>> : i \in {x \in ShutdownIds : sd[x].pc = "wait"}}

\* C1: engine state is touched only through the gateway, so at most one task
\* is inside an engine call in every reachable state.
C1_OneTaskInEngine == Cardinality(EngineCallers) <= 1

\* C3: every call of runInMainThread is eventually served: a caller blocked
\* in the send on mainFuncChan eventually gets past it (while the process
\* lives).
C3_EveryCallServed ==
    \A c \in Callers : (gwpc[c] = "send") ~> (gwpc[c] # "send" \/ ~Running)

\* C5: over any interleaving of the triggers, the teardown sequence of
\* shutdown() is started at most once per process.
C5_TeardownStartedOnce == Cardinality({i \in ShutdownIds : Started(i)}) <= 1

\* C6: the idle monitor triggers shutdown exactly once; in particular it
\* never triggers it a second time while its loop keeps running.
C6_IdleShutdownOnce == idleFires <= 1

\* C7: a request that arrives before the idle timer has expired cancels the
\* pending expiry: when the idle monitor triggers shutdown, at least
\* idleTimeout seconds have passed since the last such arrival.
C7_FullWindowAfterArrival ==
    (lastFire.fired /\ ~lastFire.late) => lastFire.age >= config.idleTimeout

\* C7 witness: the monitor has fired a full window after a request that
\* arrived while the timer was still running.
C7_Witness ==
    /\ lastFire.fired
    /\ lastFire.arrived
    /\ ~lastFire.late
    /\ lastFire.age >= config.idleTimeout

\* C8: while activeConnections > 0 no idle timer runs, and the idle monitor
\* triggers shutdown only with activeConnections = 0.
C8_NoTimeoutWhileBusy ==
    /\ activeConnections > 0 => idleTimer = TimerOff
    /\ lastFire.fired => lastFire.conns = 0

\* C8 witness: the counter has been positive for a whole idle timeout since
\* the last arrival, and the monitor has not fired.
C8_Witness ==
    /\ monitorOn
    /\ activeConnections > 0
    /\ sinceArrival >= config.idleTimeout
    /\ idleFires = 0

\* C9: in every run of shutdown with keepFiles false, the four services are
\* stopped when the removal is requested, and a goroutine that reaches the
\* exit has called removeFiles after its wait loop ended, by a cache-flushed
\* alert or by a poll that returned no alert.
C9_StopThenRemoveThenFallback ==
    \A i \in ShutdownIds :
        /\ sd[i].pc \in {"wait", "pop", "removeFiles", "exit", "exited"}
             /\ ~config.keepFiles => sd[i].rmOK
        /\ sd[i].pc \in {"exit", "exited"} /\ ~config.keepFiles
             => sd[i].fallback /\ sd[i].why \in {"timeout", "cache_flushed_alert"}

\* C9 witness: a shutdown whose wait ended on a poll with no alert has
\* called removeFiles and exited the process.
C9_Witness ==
    \E i \in ShutdownIds :
        /\ sd[i].pc = "exited"
        /\ sd[i].why = "timeout"
        /\ sd[i].fallback
        /\ sd[i].rmOK

\* C10: with keepFiles true, shutdown changes no alert mask, removes no
\* torrent, waits for no alert and deletes no file: from stopServices it
\* goes to the exit.
C10_KeepFilesSkipsRemoval ==
    flags.keepFiles =>
        /\ alertMask = "default"
        /\ torrentState \in {"none", "active"}
        /\ hasMetadata => filesOnDisk
        /\ \A i \in ShutdownIds :
            /\ sd[i].pc \in {"none", "start", "exit", "exited"}
            /\ sd[i].why = "none"
            /\ ~sd[i].fallback
            /\ sd[i].pc \in {"exit", "exited"} => services = {}

\* C10 witness: with keepFiles true a shutdown has exited the process, the
\* torrent and its files still there.
C10_Witness ==
    /\ flags.keepFiles
    /\ procState = "exited"
    /\ exitCode = 0
    /\ \E i \in ShutdownIds : sd[i].pc = "exited"
    /\ torrentState = "active"
    /\ filesOnDisk

\* C11: once a goroutine has entered shutdown(), the process eventually
\* terminates with exit status 0, whatever alerts the engine emits.
C11_ShutdownExitsZero ==
    (\E i \in ShutdownIds : Started(i)) ~> (procState = "exited" /\ exitCode = 0)

\* C12: the buffer readiness /ls reports for a file is the mean completion
\* of the first pieceCount pieces of the file's own range, startPiece ..
\* startPiece + pieceCount - 1, with pieceCount = max(ceil(buffer x (endPiece
\* - startPiece)), 1) (here for the files of a non-empty range only).
C12_BufferOverOwnRange ==
    \A k \in DOMAIN lsOut :
        LET file == tfsFiles[k]
            scaled == config.buffer.num * (file.endPiece - file.startPiece)
            ceil == IF scaled % config.buffer.den = 0
                    THEN scaled \div config.buffer.den
                    ELSE (scaled \div config.buffer.den) + 1
            pieceCount == IF ceil >= 1 THEN ceil ELSE 1
            own == file.startPiece .. (file.startPiece + pieceCount - 1)
            Sum[j \in 0..pieceCount] ==
                IF j = 0 THEN 0 ELSE Sum[j - 1] + lsProgress[file.startPiece + j - 1]
        IN  (file.endPiece > file.startPiece /\ own \subseteq Pieces) =>
                lsOut[k].buffer.num * (pieceCount * ProgressScale)
                    = Sum[pieceCount] * lsOut[k].buffer.den

\* C13: every buffer readiness /ls reports lies in [0,1], the engine's
\* per-piece completions lying in [0,1].
C13_BufferInUnitInterval ==
    \A k \in DOMAIN lsOut :
        /\ lsOut[k].buffer.den > 0
        /\ 0 <= lsOut[k].buffer.num
        /\ lsOut[k].buffer.num <= lsOut[k].buffer.den

\* C13 witness: /ls has reported a readiness strictly between 0 and 1 that
\* averages more than one piece, one of them complete.
C13_Witness ==
    \E k \in DOMAIN lsOut :
        /\ lsOut[k].buffer.den > ProgressScale
        /\ 0 < lsOut[k].buffer.num
        /\ lsOut[k].buffer.num < lsOut[k].buffer.den
        /\ lsProgress[0] = ProgressScale

\* C14: /ls lists every file, with total_pieces = max(endPiece - startPiece,
\* 1): never 0, also for an empty piece range.
C14_TotalPiecesAtLeastOne ==
    lsOut # <<>> =>
        /\ Len(lsOut) = Len(tfsFiles)
        /\ \A k \in DOMAIN lsOut :
              LET rangeLength == tfsFiles[k].endPiece - tfsFiles[k].startPiece
              IN  /\ lsOut[k].total_pieces >= 1
                  /\ lsOut[k].total_pieces >= rangeLength
                  /\ lsOut[k].total_pieces \in {rangeLength, 1}

\* C14 witness: /ls has listed a file of an empty piece range with
\* total_pieces 1 and a file of a longer range with its length.
C14_Witness ==
    /\ \E k \in DOMAIN lsOut :
          /\ tfsFiles[k].endPiece = tfsFiles[k].startPiece
          /\ lsOut[k].total_pieces = 1
    /\ \E k \in DOMAIN lsOut :
          /\ tfsFiles[k].endPiece - tfsFiles[k].startPiece > 1
          /\ lsOut[k].total_pieces = tfsFiles[k].endPiece - tfsFiles[k].startPiece

\* C15: once the engine reports the torrent as finished, the seeding watcher
\* sets every piece's priority to 1 and terminates (while the process lives).
C15_SeedingTransition ==
    IsFinished ~> ((prioritiesReset /\ espc = "done") \/ ~Running)

\* C16: the "OK" of /shutdown is written before the teardown it starts
\* begins: while the only `go shutdown()` of the process is that of a
\* /shutdown handler that has not written "OK" yet, no goroutine has entered
\* shutdown() and the process runs.
C16_OKBeforeTeardown ==
    \A h \in Conns :
        (/\ hpc[h] = "shutdownOK"
         /\ Cardinality({i \in ShutdownIds : sd[i].pc # "none"}) = 1)
        => /\ \A i \in ShutdownIds : ~Started(i)
           /\ Running

\* C17: the wait loop of shutdown is left only after a poll that returned no
\* alert or after popping the cache-flushed alert; after popping any other
\* alert the goroutine is still in the loop.
C17_WaitLoopExits ==
    \A i \in ShutdownIds :
        /\ sd[i].pc \in {"removeFiles", "exit", "exited"} /\ ~config.keepFiles
             => sd[i].why \in {"timeout", "cache_flushed_alert"}
        /\ sd[i].why \notin {"none", "timeout", "cache_flushed_alert"}
             => sd[i].pc \in {"wait", "pop"}

\* C17 witness: the only shutdown goroutine has popped an alert that is not
\* the cache-flushed one and is polling again.
C17_Witness ==
    \E i \in ShutdownIds :
        /\ sd[i].pc = "wait"
        /\ sd[i].why = "other_alert"
        /\ \A j \in ShutdownIds \ {i} : sd[j].pc = "none"

\* C18: config, session, torrentHandle and torrentFS are assigned by main
\* before any task that reads them runs, and keep their values: while a
\* request handler, the signal listener, the parent watchdog, the idle
\* monitor or a shutdown goroutine exists, none of the four is unset.
C18_FieldsSetBeforeTasks ==
    (\/ \E h \in Conns : hpc[h] # "idle"
     \/ sigpc # "none"
     \/ wppc # "none"
     \/ monitorOn
     \/ \E i \in ShutdownIds : sd[i].pc # "none")
    => /\ config = flags
       /\ session # Nil
       /\ torrentHandle # Nil
       /\ torrentFS # Nil

\* C18 witness: a request handler, the signal listener, the parent watchdog,
\* the idle monitor and a shutdown goroutine run together.
C18_Witness ==
    /\ Running
    /\ \E h \in Conns : hpc[h] = "statusEngine"
    /\ sigpc = "wait"
    /\ wppc = "poll"
    /\ monitorOn
    /\ \E i \in ShutdownIds : Started(i)

\* C19: the idle monitor's counter is never negative.
C19_CounterNotNegative == activeConnections >= 0

\* C19 witness: the monitor has counted two concurrent requests up and one
\* of them down again, the other's -1 waiting in the channel.
C19_Witness ==
    /\ monitorOn
    /\ activeConnections = 1
    /\ InFlight = {}
    /\ connTrackChannel = <<-1>>

\* C20: at the step where the idle monitor's timer branch runs `go
\* shutdown()`, no request is between its +1 and its -1.
C20_NoFireWhileInFlight ==
    [][idleFires' > idleFires => InFlight = {}]_vars
====
